---- MODULE Spec2Model ----
(***************************************************************************)
(* Maidly: the row-level-security model of the four relations profiles,   *)
(* user_roles, maids and jobs, as declared by the SQL migrations, and the  *)
(* requests that authenticated identities issue against them.              *)
(*                                                                         *)
(* Every row carries one ghost field, by: the auth.uid() of the request    *)
(* that last wrote the row (Trigger for a row written by a trigger).       *)
(* Money is kept in hundredths (DECIMAL(10,2)); request values are given   *)
(* in thousandths and rounded by the store.                                *)
(***************************************************************************)
EXTENDS Integers, FiniteSets, Sequences, TLC

\* ---------------------------------------------------------------- bounds
MaxUsers == 3
MaxMaids == 2
MaxJobs == 1
MaxTime == 2
MaxStamped == 1
MaxCompleted == 1
MaxFrameUsers == 2
MaxFrameJobs == 2

\* ------------------------------------------------------ program constants
HourlyRateLimit == 10000
DailyRateLimit == 50000
MonthlyRateLimit == 500000
hourlyRateMax == 10000
dailyRateMax == 50000
monthlyRateMax == 500000

\* ------------------------------------------------------------- the state
VARIABLES users, profiles, user_roles, maids, jobs, nextUser, nextMaid, nextJob,
          now, selectedMaid, maidProfile, customerJobs, maidJobs

\* The state of the dashboards that a request is built from: for each signed-in
\* user, the maid row picked with Book Now on the customer dashboard and the
\* maid row last fetched by the maid dashboard, each a set of at most one row
\* (empty for null), and the job list last fetched by each dashboard.
clientVars == <<selectedMaid, maidProfile, customerJobs, maidJobs>>

vars == <<users, profiles, user_roles, maids, jobs, nextUser, nextMaid, nextJob,
          now, clientVars>>

\* SQL NULL, the unauthenticated caller (auth.uid() IS NULL) and the writer
\* recorded for rows written by a SECURITY DEFINER trigger.
NULL == "NULL"
Anon == 0
Trigger == -1

\* Generated keys: three disjoint ranges, so that an id of one table is never
\* an id of another.
UserIds == 1..MaxUsers
MaidIds == (MaxUsers + 1)..(MaxUsers + MaxMaids)
JobIds == (MaxUsers + MaxMaids + 1)..(MaxUsers + MaxMaids + MaxJobs)

AppRoles == {"customer", "maid"}
JobTypes == {"hourly", "daily", "monthly"}
JobStatuses == {"pending", "accepted", "completed", "cancelled"}

\* The identities that exist, and the callers a request can come from.
Identities == {u.id : u \in users}
Callers == Identities \cup {Anon}

\* The database role a request runs as.
DbRole(uid) == IF uid = Anon THEN "anon" ELSE "authenticated"

\* ------------------------------------------------- policies (migrations)
\* to = "authenticated" for TO authenticated, "public" when no TO clause.
SchemaPolicies ==
  { [name |-> "Users can view all profiles", tbl |-> "profiles", cmd |-> "SELECT", to |-> "authenticated"],
    [name |-> "Users can update own profile", tbl |-> "profiles", cmd |-> "UPDATE", to |-> "authenticated"],
    [name |-> "Users can view own roles", tbl |-> "user_roles", cmd |-> "SELECT", to |-> "authenticated"],
    [name |-> "Users can insert own role on signup", tbl |-> "user_roles", cmd |-> "INSERT", to |-> "authenticated"],
    [name |-> "Anyone can view maids", tbl |-> "maids", cmd |-> "SELECT", to |-> "authenticated"],
    [name |-> "Maids can insert own profile", tbl |-> "maids", cmd |-> "INSERT", to |-> "authenticated"],
    [name |-> "Maids can update own profile", tbl |-> "maids", cmd |-> "UPDATE", to |-> "authenticated"],
    [name |-> "Customers can view own jobs", tbl |-> "jobs", cmd |-> "SELECT", to |-> "authenticated"],
    [name |-> "Maids can view jobs assigned to them", tbl |-> "jobs", cmd |-> "SELECT", to |-> "authenticated"],
    [name |-> "Customers can create jobs", tbl |-> "jobs", cmd |-> "INSERT", to |-> "authenticated"],
    [name |-> "Customers can update own jobs", tbl |-> "jobs", cmd |-> "UPDATE", to |-> "authenticated"],
    [name |-> "Maids can update assigned jobs", tbl |-> "jobs", cmd |-> "UPDATE", to |-> "authenticated"] }

\* Mutant: the earlier "view all profiles" policy is never dropped.
DroppedPolicies_None == {}

DroppedPolicies == {"Users can view all profiles"}

CreatedPolicies ==
  { [name |-> "Users can view own profile", tbl |-> "profiles", cmd |-> "SELECT", to |-> "public"] }

\* The policies in force with all migrations applied.
ActivePolicies ==
  {p \in SchemaPolicies : p.name \notin DroppedPolicies} \cup CreatedPolicies

\* Mutant: the role of any identity counts.
has_role_OfAnyone(uid, role) ==
  \E r \in user_roles : r.role = role

\* has_role(_user_id, _role)
has_role(uid, role) ==
  \E r \in user_roles : r.user_id = uid /\ r.role = role

\* EXISTS (SELECT 1 FROM maids WHERE maids.id = jobs.maid_id AND maids.user_id = auth.uid())
AssignedMaid(uid, job) ==
  \E m \in maids : m.id = job.maid_id /\ m.user_id = uid

\* The USING / WITH CHECK expression of each policy, on (auth.uid(), row).
\* A comparison with a NULL auth.uid() is not true.
Users_can_view_all_profiles(uid, row) == TRUE

Users_can_view_own_profile(uid, row) == uid # Anon /\ uid = row.id

Users_can_update_own_profile(uid, row) == uid # Anon /\ uid = row.id

Users_can_view_own_roles(uid, row) == uid # Anon /\ uid = row.user_id

\* Mutant: any authenticated identity may insert a role for any identity.
Users_can_insert_own_role_on_signup_Any(uid, row) == uid # Anon

Users_can_insert_own_role_on_signup(uid, row) == uid # Anon /\ uid = row.user_id

\* Mutant: a maid row is visible to its owner only.
Anyone_can_view_maids_Own(uid, row) == uid # Anon /\ uid = row.user_id

Anyone_can_view_maids(uid, row) == TRUE

Maids_can_insert_own_profile(uid, row) == uid # Anon /\ uid = row.user_id

\* Mutant: the policy looks at the id of the row instead of its user_id.
Maids_can_update_own_profile_Any(uid, row) == uid # Anon /\ uid # row.id

Maids_can_update_own_profile(uid, row) == uid # Anon /\ uid = row.user_id

Customers_can_view_own_jobs(uid, row) == uid # Anon /\ uid = row.customer_id

\* Mutant: the subquery forgets maids.id = jobs.maid_id.
Maids_can_view_jobs_assigned_to_them_AnyMaid(uid, row) ==
  uid # Anon /\ \E m \in maids : m.user_id = uid

Maids_can_view_jobs_assigned_to_them(uid, row) == uid # Anon /\ AssignedMaid(uid, row)

\* Mutant: the role check is missing.
Customers_can_create_jobs_NoRole(uid, row) == uid # Anon /\ uid = row.customer_id

Customers_can_create_jobs(uid, row) ==
  uid # Anon /\ uid = row.customer_id /\ has_role(uid, "customer")

Customers_can_update_own_jobs(uid, row) == uid # Anon /\ uid = row.customer_id

\* Mutant: the policy lets the maid touch pending jobs only.
Maids_can_update_assigned_jobs_PendingOnly(uid, row) ==
  uid # Anon /\ AssignedMaid(uid, row) /\ row.status = "pending"

Maids_can_update_assigned_jobs(uid, row) == uid # Anon /\ AssignedMaid(uid, row)

PolicyExpr(name, uid, row) ==
  CASE name = "Users can view all profiles" -> Users_can_view_all_profiles(uid, row)
    [] name = "Users can view own profile" -> Users_can_view_own_profile(uid, row)
    [] name = "Users can update own profile" -> Users_can_update_own_profile(uid, row)
    [] name = "Users can view own roles" -> Users_can_view_own_roles(uid, row)
    [] name = "Users can insert own role on signup" ->
         Users_can_insert_own_role_on_signup(uid, row)
    [] name = "Anyone can view maids" -> Anyone_can_view_maids(uid, row)
    [] name = "Maids can insert own profile" -> Maids_can_insert_own_profile(uid, row)
    [] name = "Maids can update own profile" -> Maids_can_update_own_profile(uid, row)
    [] name = "Customers can view own jobs" -> Customers_can_view_own_jobs(uid, row)
    [] name = "Maids can view jobs assigned to them" ->
         Maids_can_view_jobs_assigned_to_them(uid, row)
    [] name = "Customers can create jobs" -> Customers_can_create_jobs(uid, row)
    [] name = "Customers can update own jobs" -> Customers_can_update_own_jobs(uid, row)
    [] name = "Maids can update assigned jobs" -> Maids_can_update_assigned_jobs(uid, row)
    [] OTHER -> FALSE

\* Mutants: row level security is not enabled on profiles / on jobs.
RlsEnabled_NotProfiles == {"user_roles", "maids", "jobs"}

RlsEnabled_NotJobs == {"profiles", "user_roles", "maids"}

\* Mutant: row level security is not enabled on user_roles.
RlsEnabled_NotRoles == {"profiles", "maids", "jobs"}

\* ALTER TABLE ... ENABLE ROW LEVEL SECURITY
RlsEnabled == {"profiles", "user_roles", "maids", "jobs"}

\* On a table with row level security enabled, a command on a row is
\* permitted iff some permissive policy for (table, command) that applies to
\* the caller's database role holds of the row; with no such policy, denied.
\* USING and WITH CHECK share one expression in every policy of the schema
\* (an UPDATE policy without WITH CHECK checks the new row with USING).
Permitted(tbl, cmd, uid, row) ==
  \/ tbl \notin RlsEnabled
  \/ \E p \in ActivePolicies :
       /\ p.tbl = tbl
       /\ p.cmd = cmd
       /\ p.to \in {"public", DbRole(uid)}
       /\ PolicyExpr(p.name, uid, row)

\* Mutant: the request has no filter on the key.
KeyFilter_None(rows, id) == rows

\* .eq('id', id): the rows with that key.
KeyFilter(rows, id) == {r \in rows : r.id = id}

\* Mutant: every row the caller can read is a target.
Targets_SelectOnly(tbl, cmd, uid, rows) ==
  {r \in rows : Permitted(tbl, "SELECT", uid, r)}

\* A filtered UPDATE or DELETE reads the rows it filters: its targets are the
\* rows that pass the command's USING policies and the SELECT policies.
Targets(tbl, cmd, uid, rows) ==
  {r \in rows : Permitted(tbl, cmd, uid, r) /\ Permitted(tbl, "SELECT", uid, r)}

\* The new row of an UPDATE must pass the UPDATE policies (WITH CHECK) and,
\* the command having read the table, the SELECT policies.
NewRowPermitted(tbl, uid, row) ==
  Permitted(tbl, "UPDATE", uid, row) /\ Permitted(tbl, "SELECT", uid, row)

\* UPDATE ... SET col = val, stamped with the writer.
Apply(row, patch, uid) == [[row EXCEPT ![patch.col] = patch.val] EXCEPT !.by = uid]

\* update_updated_at_column(), BEFORE UPDATE ... FOR EACH ROW on profiles, maids
\* and jobs: NEW.updated_at = NOW().
\* Mutant: the trigger returns NEW as the request built it.
update_updated_at_column_Keep(new) == new

update_updated_at_column(new) == [new EXCEPT !.updated_at = now]

\* COALESCE(v, d)
Coalesce(v, d) == IF v = NULL THEN d ELSE v

\* A value stored in a DECIMAL(10,2) column, from a value in thousandths:
\* rounded half away from zero to hundredths.
Numeric2(mills) ==
  IF mills >= 0 THEN (mills + 5) \div 10 ELSE 0 - ((5 - mills) \div 10)

\* --------------------------------------------------------- request inputs
SignUpForms ==
  { [email |-> "a@x.in", full_name |-> NULL],
    [email |-> "b@x.in", full_name |-> "Ann"] }

PlainForm == [email |-> "a@x.in", full_name |-> NULL]

ProfilePatches ==
  {[col |-> "full_name", val |-> "Zed"]} \cup {[col |-> "id", val |-> u] : u \in UserIds}

\* Rates in thousandths: the smallest and largest values the store keeps, and
\* values at and around each boundary.
RateInputs ==
  { [h |-> 10, d |-> 10, m |-> 10],
    [h |-> 9999990, d |-> 49999990, m |-> 499999990],
    [h |-> 9999994, d |-> 49999994, m |-> 499999994],
    [h |-> 10000000, d |-> 10, m |-> 10],
    [h |-> 10, d |-> 50000000, m |-> 10],
    [h |-> 10, d |-> 10, m |-> 500000000],
    [h |-> 9999995, d |-> 10, m |-> 10],
    [h |-> 0, d |-> 10, m |-> 10],
    [h |-> 10, d |-> 0, m |-> 10],
    [h |-> 10, d |-> 10, m |-> 0],
    [h |-> 4, d |-> 10, m |-> 10],
    [h |-> 0 - 10, d |-> 10, m |-> 10] }

ListedRates == [h |-> 9999990, d |-> 49999990, m |-> 499999990]

JobTypeInputs == {"hourly", "weekly"}
StatusInputs == JobStatuses \cup {"bogus"}
AmountInputs == {10}

JobInputs ==
  [customer_id : UserIds, maid_id : MaidIds, job_type : JobTypeInputs,
   amount : AmountInputs, status : {"pending", "completed", "bogus"}]

\* The rows a booking stores: status pending, a job type of the form.
BookingInputs == {in \in JobInputs : in.status = "pending" /\ in.job_type \in JobTypes}

\* A request that sets updated_at itself, to a time the clock does not show.
SuppliedTime == MaxTime + 7

StampPatches == {[col |-> "updated_at", val |-> SuppliedTime]}

JobPatches ==
  {[col |-> "status", val |-> s] : s \in StatusInputs}
    \cup {[col |-> "customer_id", val |-> u] : u \in UserIds}
    \cup {[col |-> "maid_id", val |-> m] : m \in MaidIds}

\* ------------------------------------------------------------- identities
\* handle_new_user(): the profile row of a new auth.users row.
\* Mutant: full_name is copied without COALESCE.
handle_new_user_NoCoalesce(new) ==
  [id |-> new.id, email |-> new.email, full_name |-> new.full_name,
   created_at |-> now, updated_at |-> now, by |-> Trigger]

handle_new_user(new) ==
  [id |-> new.id, email |-> new.email,
   full_name |-> Coalesce(new.full_name, ""),
   created_at |-> now, updated_at |-> now, by |-> Trigger]

Init ==
  /\ users = {}
  /\ profiles = {}
  /\ user_roles = {}
  /\ maids = {}
  /\ jobs = {}
  /\ nextUser = 1
  /\ nextMaid = MaxUsers + 1
  /\ nextJob = MaxUsers + MaxMaids + 1
  /\ now = 0
  /\ selectedMaid = [u \in UserIds |-> {}]
  /\ maidProfile = [u \in UserIds |-> {}]
  /\ customerJobs = [u \in UserIds |-> {}]
  /\ maidJobs = [u \in UserIds |-> {}]

\* The auth provider inserts a row into auth.users; on_auth_user_created
\* fires in the same transaction (a failing trigger undoes the insert).
CreateIdentity(form) ==
  /\ nextUser <= MaxUsers
  /\ LET new == [id |-> nextUser, email |-> form.email, full_name |-> form.full_name]
     IN IF \E p \in profiles : p.id = new.id
        THEN UNCHANGED <<users, profiles, nextUser>>
        ELSE /\ users' = users \cup {new}
             /\ profiles' = profiles \cup {handle_new_user(new)}
             /\ nextUser' = nextUser + 1
  /\ UNCHANGED <<user_roles, maids, jobs, nextMaid, nextJob, now, clientVars>>

\* The auth provider deletes an auth.users row; ON DELETE CASCADE removes the
\* rows that reference it, and the rows that reference those.
DeleteIdentity(id) ==
  /\ id \in Identities
  /\ LET goneMaids == {m \in maids : m.user_id = id}
     IN /\ users' = {u \in users : u.id # id}
        /\ profiles' = {p \in profiles : p.id # id}
        /\ user_roles' = {r \in user_roles : r.user_id # id}
        /\ maids' = maids \ goneMaids
        /\ jobs' = {j \in jobs : j.customer_id # id
                                  /\ j.maid_id \notin {m.id : m \in goneMaids}}
  /\ UNCHANGED <<nextUser, nextMaid, nextJob, now, clientVars>>

\* --------------------------------------------------------------- profiles
\* Outcomes of a write: "ok"; "rls", the row violates row-level security;
\* "check", "unique", "fk", a constraint is violated; "none", the filter of
\* an UPDATE or DELETE matched no row the caller may touch (no error).
ProfileInsertOutcome(uid, row) ==
  IF ~Permitted("profiles", "INSERT", uid, row) THEN "rls"
  ELSE IF \E p \in profiles : p.id = row.id THEN "unique"
  ELSE IF row.id \notin Identities THEN "fk"
  ELSE "ok"

ProfileTargets(cmd, uid, id) ==
  Targets("profiles", cmd, uid, {p \in profiles : p.id = id})

ProfileUpdateOutcome(uid, old, new) ==
  IF ~NewRowPermitted("profiles", uid, new) THEN "rls"
  ELSE IF \E p \in profiles \ {old} : p.id = new.id THEN "unique"
  ELSE IF new.id \notin Identities THEN "fk"
  ELSE IF new.id # old.id /\ \E m \in maids : m.user_id = old.id THEN "fk"
  ELSE "ok"

\* The new row of an UPDATE of profiles, after the BEFORE UPDATE trigger.
ApplyProfile(row, patch, uid) == update_updated_at_column(Apply(row, patch, uid))

InsertProfile(uid, id) ==
  /\ LET row == [id |-> id, email |-> "c@x.in", full_name |-> "Zed",
                 created_at |-> now, updated_at |-> now, by |-> uid]
     IN profiles' = IF ProfileInsertOutcome(uid, row) = "ok"
                    THEN profiles \cup {row} ELSE profiles
  /\ UNCHANGED <<users, user_roles, maids, jobs, nextUser, nextMaid, nextJob, now, clientVars>>

UpdateProfile(uid, id, patch) ==
  /\ profiles' =
       (profiles \ ProfileTargets("UPDATE", uid, id))
         \cup { IF ProfileUpdateOutcome(uid, old, ApplyProfile(old, patch, uid)) = "ok"
                THEN ApplyProfile(old, patch, uid) ELSE old
                : old \in ProfileTargets("UPDATE", uid, id) }
  /\ UNCHANGED <<users, user_roles, maids, jobs, nextUser, nextMaid, nextJob, now, clientVars>>

\* ON DELETE CASCADE from profiles to maids, and from maids to jobs.
DeleteProfile(uid, id) ==
  /\ LET gone == ProfileTargets("DELETE", uid, id)
         goneMaids == {m \in maids : m.user_id \in {p.id : p \in gone}}
     IN /\ profiles' = profiles \ gone
        /\ maids' = maids \ goneMaids
        /\ jobs' = {j \in jobs : j.maid_id \notin {m.id : m \in goneMaids}}
  /\ UNCHANGED <<users, user_roles, nextUser, nextMaid, nextJob, now, clientVars>>

\* ------------------------------------------------------------- user_roles
\* UNIQUE(user_id, role); user_id REFERENCES auth.users(id)
RoleInsertOutcome(uid, row) ==
  IF ~Permitted("user_roles", "INSERT", uid, row) THEN "rls"
  ELSE IF \E r \in user_roles : r.user_id = row.user_id /\ r.role = row.role THEN "unique"
  ELSE IF row.user_id \notin Identities THEN "fk"
  ELSE "ok"

RoleTargets(cmd, uid, user_id, role) ==
  Targets("user_roles", cmd, uid,
          {r \in user_roles : r.user_id = user_id /\ r.role = role})

RoleUpdateOutcome(uid, old, new) ==
  IF ~NewRowPermitted("user_roles", uid, new) THEN "rls"
  ELSE IF \E r \in user_roles \ {old} : r.user_id = new.user_id /\ r.role = new.role
       THEN "unique"
  ELSE "ok"

InsertRole(uid, user_id, role) ==
  /\ LET row == [user_id |-> user_id, role |-> role, by |-> uid]
     IN user_roles' = IF RoleInsertOutcome(uid, row) = "ok"
                      THEN user_roles \cup {row} ELSE user_roles
  /\ UNCHANGED <<users, profiles, maids, jobs, nextUser, nextMaid, nextJob, now, clientVars>>

UpdateRole(uid, user_id, role, newRole) ==
  /\ LET patch == [col |-> "role", val |-> newRole]
     IN user_roles' =
          (user_roles \ RoleTargets("UPDATE", uid, user_id, role))
            \cup { IF RoleUpdateOutcome(uid, old, Apply(old, patch, uid)) = "ok"
                   THEN Apply(old, patch, uid) ELSE old
                   : old \in RoleTargets("UPDATE", uid, user_id, role) }
  /\ UNCHANGED <<users, profiles, maids, jobs, nextUser, nextMaid, nextJob, now, clientVars>>

DeleteRole(uid, user_id, role) ==
  /\ user_roles' = user_roles \ RoleTargets("DELETE", uid, user_id, role)
  /\ UNCHANGED <<users, profiles, maids, jobs, nextUser, nextMaid, nextJob, now, clientVars>>

\* ------------------------------------------------------------------ maids
\* Mutant: the upper bound is inclusive.
check_hourly_rate_positive_Inclusive(row) ==
  row.hourly_rate > 0 /\ row.hourly_rate <= HourlyRateLimit * 100

check_hourly_rate_positive(row) ==
  row.hourly_rate > 0 /\ row.hourly_rate < HourlyRateLimit * 100

check_daily_rate_positive(row) ==
  row.daily_rate > 0 /\ row.daily_rate < DailyRateLimit * 100

check_monthly_rate_positive(row) ==
  row.monthly_rate > 0 /\ row.monthly_rate < MonthlyRateLimit * 100

MaidChecks(row) ==
  /\ check_hourly_rate_positive(row)
  /\ check_daily_rate_positive(row)
  /\ check_monthly_rate_positive(row)

OwnerPatches == {[col |-> "user_id", val |-> u] : u \in UserIds}

MaidPatches == {[col |-> "rates", val |-> r] : r \in RateInputs} \cup OwnerPatches

\* A maid changing its prices: to the smallest rates, and back to the listed ones.
RepricePatches ==
  {[col |-> "rates", val |-> r] : r \in {[h |-> 10, d |-> 10, m |-> 10], ListedRates}}

\* The new row of an UPDATE of maids, after the BEFORE UPDATE trigger.
ApplyMaid(row, patch, uid) ==
  update_updated_at_column(
    IF patch.col = "rates"
    THEN [row EXCEPT !.hourly_rate = Numeric2(patch.val.h),
                     !.daily_rate = Numeric2(patch.val.d),
                     !.monthly_rate = Numeric2(patch.val.m),
                     !.by = uid]
    ELSE Apply(row, patch, uid))

\* user_id UNIQUE, REFERENCES profiles(id) (maids_user_id_fkey)
MaidConstraints(others, row) ==
  IF ~MaidChecks(row) THEN "check"
  ELSE IF \E m \in others : m.user_id = row.user_id THEN "unique"
  ELSE IF row.user_id \notin {p.id : p \in profiles} THEN "fk"
  ELSE "ok"

MaidInsertOutcome(uid, row) ==
  IF ~Permitted("maids", "INSERT", uid, row) THEN "rls"
  ELSE MaidConstraints(maids, row)

MaidTargets(cmd, uid, id) ==
  Targets("maids", cmd, uid, {m \in maids : m.id = id})

MaidUpdateOutcome(uid, old, new) ==
  IF ~NewRowPermitted("maids", uid, new) THEN "rls"
  ELSE MaidConstraints(maids \ {old}, new)

NewMaid(uid, user_id, rates) ==
  [id |-> nextMaid, user_id |-> user_id,
   hourly_rate |-> Numeric2(rates.h),
   daily_rate |-> Numeric2(rates.d),
   monthly_rate |-> Numeric2(rates.m),
   completed_jobs |-> 0, created_at |-> now, updated_at |-> now, by |-> uid]

InsertMaid(uid, user_id, rates) ==
  /\ nextMaid <= MaxUsers + MaxMaids
  /\ IF MaidInsertOutcome(uid, NewMaid(uid, user_id, rates)) = "ok"
     THEN maids' = maids \cup {NewMaid(uid, user_id, rates)} /\ nextMaid' = nextMaid + 1
     ELSE UNCHANGED <<maids, nextMaid>>
  /\ UNCHANGED <<users, profiles, user_roles, jobs, nextUser, nextJob, now, clientVars>>

\* An UPDATE that fails on some row raises an error and changes nothing.
MaidUpdateError(uid, id, patch) ==
  \E old \in MaidTargets("UPDATE", uid, id) :
    MaidUpdateOutcome(uid, old, ApplyMaid(old, patch, uid)) # "ok"

\* Table maids after UPDATE maids SET patch WHERE id = id, issued by uid.
UpdatedMaids(uid, id, patch) ==
  IF MaidUpdateError(uid, id, patch) THEN maids
  ELSE (maids \ MaidTargets("UPDATE", uid, id))
         \cup {ApplyMaid(old, patch, uid) : old \in MaidTargets("UPDATE", uid, id)}

UpdateMaid(uid, id, patch) ==
  /\ maids' = UpdatedMaids(uid, id, patch)
  /\ UNCHANGED <<users, profiles, user_roles, jobs, nextUser, nextMaid, nextJob, now, clientVars>>

\* ON DELETE CASCADE from maids to jobs.
DeleteMaid(uid, id) ==
  /\ LET gone == MaidTargets("DELETE", uid, id)
     IN /\ maids' = maids \ gone
        /\ jobs' = {j \in jobs : j.maid_id \notin {m.id : m \in gone}}
  /\ UNCHANGED <<users, profiles, user_roles, nextUser, nextMaid, nextJob, now, clientVars>>

\* ------------------------------------------------------------------- jobs
\* CHECK (job_type IN ...), CHECK (status IN ...), customer_id REFERENCES
\* auth.users(id), maid_id REFERENCES maids(id)
\* Mutant: the CHECK on status is missing.
JobConstraints_NoStatusCheck(row) ==
  IF row.job_type \notin JobTypes THEN "check"
  ELSE IF row.customer_id \notin Identities THEN "fk"
  ELSE IF row.maid_id \notin {m.id : m \in maids} THEN "fk"
  ELSE "ok"

JobConstraints(row) ==
  IF row.job_type \notin JobTypes \/ row.status \notin JobStatuses THEN "check"
  ELSE IF row.customer_id \notin Identities THEN "fk"
  ELSE IF row.maid_id \notin {m.id : m \in maids} THEN "fk"
  ELSE "ok"

JobInsertOutcome(uid, row) ==
  IF ~Permitted("jobs", "INSERT", uid, row) THEN "rls"
  ELSE JobConstraints(row)

JobTargets(cmd, uid, id) ==
  Targets("jobs", cmd, uid, KeyFilter(jobs, id))

JobUpdateOutcome(uid, old, new) ==
  IF ~NewRowPermitted("jobs", uid, new) THEN "rls"
  ELSE JobConstraints(new)

\* The new row of an UPDATE of jobs, after the BEFORE UPDATE trigger.
ApplyJob(row, patch, uid) == update_updated_at_column(Apply(row, patch, uid))

NewJob(uid, in) ==
  [id |-> nextJob, customer_id |-> in.customer_id, maid_id |-> in.maid_id,
   job_type |-> in.job_type, amount |-> Numeric2(in.amount),
   status |-> in.status, created_at |-> now, updated_at |-> now, by |-> uid]

\* INSERT INTO jobs, while fewer than `limit` jobs have been inserted.
InsertJobUpTo(limit, uid, in) ==
  /\ nextJob <= MaxUsers + MaxMaids + limit
  /\ IF JobInsertOutcome(uid, NewJob(uid, in)) = "ok"
     THEN jobs' = jobs \cup {NewJob(uid, in)} /\ nextJob' = nextJob + 1
     ELSE UNCHANGED <<jobs, nextJob>>
  /\ UNCHANGED <<users, profiles, user_roles, maids, nextUser, nextMaid, now, clientVars>>

InsertJob(uid, in) == InsertJobUpTo(MaxJobs, uid, in)

\* An UPDATE that fails on some row raises an error and changes nothing.
JobUpdateError(uid, id, patch) ==
  \E old \in JobTargets("UPDATE", uid, id) :
    JobUpdateOutcome(uid, old, ApplyJob(old, patch, uid)) # "ok"

\* Table jobs after UPDATE jobs SET patch WHERE id = id, issued by uid.
UpdatedJobs(uid, id, patch) ==
  IF JobUpdateError(uid, id, patch) THEN jobs
  ELSE (jobs \ JobTargets("UPDATE", uid, id))
         \cup {ApplyJob(old, patch, uid) : old \in JobTargets("UPDATE", uid, id)}

UpdateJob(uid, id, patch) ==
  /\ jobs' = UpdatedJobs(uid, id, patch)
  /\ UNCHANGED <<users, profiles, user_roles, maids, nextUser, nextMaid, nextJob, now, clientVars>>

DeleteJob(uid, id) ==
  /\ jobs' = jobs \ JobTargets("DELETE", uid, id)
  /\ UNCHANGED <<users, profiles, user_roles, maids, nextUser, nextMaid, nextJob, now, clientVars>>

\* ------------------------------------------------------------------ reads
\* SELECT * FROM <table>, as the caller: the rows the SELECT policies let through.
SelectProfiles(uid) == {p \in profiles : Permitted("profiles", "SELECT", uid, p)}

SelectRoles(uid) == {r \in user_roles : Permitted("user_roles", "SELECT", uid, r)}

SelectMaids(uid) == {m \in maids : Permitted("maids", "SELECT", uid, m)}

SelectJobs(uid) == {j \in jobs : Permitted("jobs", "SELECT", uid, j)}

\* ------------------------------------------------------------- dashboards
\* The handlers of the two dashboards, for the signed-in user `user`. A
\* status handler is called with the id of a job of a list fetched earlier.

\* fetchMaids: maids with profiles!inner(full_name), as the caller: the maid
\* rows the caller may read whose profile the caller may read.
FetchMaids(user) ==
  {m \in SelectMaids(user) : \E p \in SelectProfiles(user) : p.id = m.user_id}

\* Book Now on a maid of the fetched list.
setSelectedMaid(user, maid) ==
  /\ selectedMaid' = [selectedMaid EXCEPT ![user] = {maid}]
  /\ UNCHANGED <<users, profiles, user_roles, maids, jobs, nextUser, nextMaid, nextJob,
                 now, maidProfile, customerJobs, maidJobs>>

\* The amount handleBookMaid computes from the selected maid.
BookingAmount(maid, jobType) ==
  IF jobType = "hourly" THEN maid.hourly_rate
  ELSE IF jobType = "daily" THEN maid.daily_rate
  ELSE maid.monthly_rate

\* The row handleBookMaid inserts (amount in thousandths).
Booking(user, maid, jobType) ==
  [customer_id |-> user, maid_id |-> maid.id, job_type |-> jobType,
   amount |-> BookingAmount(maid, jobType) * 10, status |-> "pending"]

\* fetchJobs of the customer dashboard: jobs where customer_id = user.id with
\* maids!inner(profiles!inner(full_name)), read from `table`: the caller's
\* jobs whose maid row and whose maid's profile the caller may read.
CustomerJobList(user, table) ==
  {j \in table : /\ Permitted("jobs", "SELECT", user, j)
                 /\ j.customer_id = user
                 /\ \E m \in FetchMaids(user) : m.id = j.maid_id}

\* fetchJobs of the maid dashboard: the id of the caller's maid row, .single()
\* (without one, the list stays as it is), then the jobs with that maid_id.
\* The customer's name is embedded through the constraint the request names,
\* profiles!jobs_customer_id_fkey, not !inner: it drops no job.
MaidJobList(user, table, old) ==
  LET maidData == {m \in SelectMaids(user) : m.user_id = user}
  IN IF Cardinality(maidData) # 1 THEN old
     ELSE {j \in table : /\ Permitted("jobs", "SELECT", user, j)
                         /\ j.maid_id \in {m.id : m \in maidData}}

\* The customer dashboard, opened: fetchJobs() (and fetchMaids()).
fetchCustomerJobs(user) ==
  /\ customerJobs' = [customerJobs EXCEPT ![user] = CustomerJobList(user, jobs)]
  /\ UNCHANGED <<users, profiles, user_roles, maids, jobs, nextUser, nextMaid, nextJob,
                 now, selectedMaid, maidProfile, maidJobs>>

\* handleBookMaid ends with fetchJobs() when the insert succeeded.
handleBookMaid(user, jobType) ==
  \E maid \in selectedMaid[user] :
    LET row == NewJob(user, Booking(user, maid, jobType))
        ok == JobInsertOutcome(user, row) = "ok"
    IN /\ nextJob <= MaxUsers + MaxMaids + MaxJobs
       /\ jobs' = IF ok THEN jobs \cup {row} ELSE jobs
       /\ nextJob' = IF ok THEN nextJob + 1 ELSE nextJob
       /\ customerJobs' =
            IF ok THEN [customerJobs EXCEPT ![user] = CustomerJobList(user, jobs')]
            ELSE customerJobs
       /\ UNCHANGED <<users, profiles, user_roles, maids, nextUser, nextMaid, now,
                      selectedMaid, maidProfile, maidJobs>>

\* fetchMaidProfile: maids where user_id = user.id, .single(): the row when
\* there is exactly one, otherwise an error that leaves maidProfile as it is.
FetchedMaidProfile(user, table, old) ==
  LET rows == {m \in table : m.user_id = user}
  IN IF Cardinality(rows) = 1 THEN rows ELSE old

fetchMaidProfile(user) ==
  /\ maidProfile' =
       [maidProfile EXCEPT ![user] = FetchedMaidProfile(user, SelectMaids(user), @)]
  /\ UNCHANGED <<users, profiles, user_roles, maids, jobs, nextUser, nextMaid, nextJob,
                 now, selectedMaid, customerJobs, maidJobs>>

\* The maid dashboard, opened: fetchMaidProfile() and fetchJobs(); it shows
\* its buttons once fetchMaidProfile has returned.
openMaidDashboard(user) ==
  /\ maidProfile' =
       [maidProfile EXCEPT ![user] =
          FetchedMaidProfile(user, SelectMaids(user), @)]
  /\ maidJobs' = [maidJobs EXCEPT ![user] = MaidJobList(user, jobs, @)]
  /\ UNCHANGED <<users, profiles, user_roles, maids, jobs, nextUser, nextMaid, nextJob,
                 now, selectedMaid, customerJobs>>

CancelPatch == [col |-> "status", val |-> "cancelled"]
AcceptPatch == [col |-> "status", val |-> "accepted"]
CompletePatch == [col |-> "status", val |-> "completed"]

\* What a status handler reports: the destructive toast when the request
\* returned an error, otherwise its success toast.
Toast(error, success) == IF error THEN "Error" ELSE success

cancelJobToast(user, jobId) == Toast(JobUpdateError(user, jobId, CancelPatch), "Job cancelled")

\* cancelJob ends with fetchJobs().
cancelJob(user, jobId) ==
  /\ jobs' = UpdatedJobs(user, jobId, CancelPatch)
  /\ customerJobs' =
       IF JobUpdateError(user, jobId, CancelPatch) THEN customerJobs
       ELSE [customerJobs EXCEPT ![user] = CustomerJobList(user, jobs')]
  /\ UNCHANGED <<users, profiles, user_roles, maids, nextUser, nextMaid, nextJob,
                 now, selectedMaid, maidProfile, maidJobs>>

rejectJobToast(user, jobId) == Toast(JobUpdateError(user, jobId, CancelPatch), "Job rejected")

\* rejectJob ends with fetchJobs().
rejectJob(user, jobId) ==
  /\ jobs' = UpdatedJobs(user, jobId, CancelPatch)
  /\ maidJobs' =
       IF JobUpdateError(user, jobId, CancelPatch) THEN maidJobs
       ELSE [maidJobs EXCEPT ![user] = MaidJobList(user, jobs', @)]
  /\ UNCHANGED <<users, profiles, user_roles, maids, nextUser, nextMaid, nextJob,
                 now, selectedMaid, maidProfile, customerJobs>>

acceptJobToast(user, jobId) == Toast(JobUpdateError(user, jobId, AcceptPatch), "Job accepted!")

\* acceptJob ends with fetchJobs() and fetchMaidProfile().
acceptJob(user, jobId) ==
  /\ jobs' = UpdatedJobs(user, jobId, AcceptPatch)
  /\ maidProfile' =
       IF JobUpdateError(user, jobId, AcceptPatch) THEN maidProfile
       ELSE [maidProfile EXCEPT ![user] = FetchedMaidProfile(user, SelectMaids(user), @)]
  /\ maidJobs' =
       IF JobUpdateError(user, jobId, AcceptPatch) THEN maidJobs
       ELSE [maidJobs EXCEPT ![user] = MaidJobList(user, jobs', @)]
  /\ UNCHANGED <<users, profiles, user_roles, maids, nextUser, nextMaid, nextJob,
                 now, selectedMaid, customerJobs>>

completeJobToast(user, jobId) ==
  Toast(JobUpdateError(user, jobId, CompletePatch), "Job completed!")

\* The second request of completeJob: completed_jobs of the fetched maid row
\* plus one, written to the maid row of that id. Its result is not looked at.
CountPatch(fetched) == [col |-> "completed_jobs", val |-> fetched.completed_jobs + 1]

\* completeJob ends with fetchJobs() and fetchMaidProfile().
completeJob(user, jobId) ==
  /\ \A fetched \in maidProfile[user] : fetched.completed_jobs < MaxCompleted
  /\ jobs' = UpdatedJobs(user, jobId, CompletePatch)
  /\ IF JobUpdateError(user, jobId, CompletePatch)
     THEN UNCHANGED <<maids, maidProfile, maidJobs>>
     ELSE /\ maidJobs' = [maidJobs EXCEPT ![user] = MaidJobList(user, jobs', @)]
          /\ maids' = IF maidProfile[user] = {} THEN maids
                      ELSE LET fetched == CHOOSE m \in maidProfile[user] : TRUE
                           IN UpdatedMaids(user, fetched.id, CountPatch(fetched))
          /\ maidProfile' =
               [maidProfile EXCEPT ![user] =
                  FetchedMaidProfile(user,
                    {m \in maids' : Permitted("maids", "SELECT", user, m)}, @)]
  /\ UNCHANGED <<users, profiles, user_roles, nextUser, nextMaid, nextJob,
                 now, selectedMaid, customerJobs>>

\* Time passes.
Tick ==
  /\ now < MaxTime
  /\ now' = now + 1
  /\ UNCHANGED <<users, profiles, user_roles, maids, jobs, nextUser, nextMaid, nextJob,
                 clientVars>>

\* --------------------------------------------------------- specifications
\* The requests on each table, over the inputs a specification gives them.
\* An UPDATE or DELETE is filtered by the key of a row: a key that no row has
\* filters every row out, so these requests name the keys of stored rows.
ProfileSteps ==
  \/ \E uid \in Callers, id \in UserIds : InsertProfile(uid, id)
  \/ \E uid \in Callers, p \in profiles, patch \in ProfilePatches :
       UpdateProfile(uid, p.id, patch)
  \/ \E uid \in Callers, p \in profiles : DeleteProfile(uid, p.id)

RoleSteps ==
  \/ \E uid \in Callers, user_id \in UserIds, role \in AppRoles :
       InsertRole(uid, user_id, role)
  \/ \E uid \in Callers, r \in user_roles :
       \E newRole \in AppRoles \ {r.role} : UpdateRole(uid, r.user_id, r.role, newRole)
  \/ \E uid \in Callers, r \in user_roles : DeleteRole(uid, r.user_id, r.role)

MaidSteps(rateInputs, patches) ==
  \/ \E uid \in Callers, user_id \in UserIds, rates \in rateInputs :
       InsertMaid(uid, user_id, rates)
  \/ \E uid \in Callers, m \in maids, patch \in patches : UpdateMaid(uid, m.id, patch)
  \/ \E uid \in Callers, m \in maids : DeleteMaid(uid, m.id)

JobSteps ==
  \/ \E uid \in Callers, in \in JobInputs : InsertJob(uid, in)
  \/ \E uid \in Callers, j \in jobs, patch \in JobPatches : UpdateJob(uid, j.id, patch)
  \/ \E uid \in Callers, j \in jobs : DeleteJob(uid, j.id)

\* Identities signing up with and without a full name, and their profiles.
NextProfiles ==
  \/ \E form \in SignUpForms : CreateIdentity(form)
  \/ \E id \in Identities : DeleteIdentity(id)
  \/ ProfileSteps

SpecProfiles == Init /\ [][NextProfiles]_vars

\* Identities, their profiles and their role assignments.
NextRoles ==
  \/ CreateIdentity(PlainForm)
  \/ \E id \in Identities : DeleteIdentity(id)
  \/ ProfileSteps
  \/ RoleSteps

SpecRoles == Init /\ [][NextRoles]_vars

\* Identities and maid profiles, over every rate input.
NextMaids ==
  \/ CreateIdentity(PlainForm)
  \/ \E id \in Identities : DeleteIdentity(id)
  \/ MaidSteps(RateInputs, MaidPatches)

SpecMaids == Init /\ [][NextMaids]_vars

\* Identities, role assignments and the listing of maid profiles.
NextListing ==
  \/ CreateIdentity(PlainForm)
  \/ \E id \in Identities : DeleteIdentity(id)
  \/ RoleSteps
  \/ MaidSteps({ListedRates}, OwnerPatches)

SpecListing == Init /\ [][NextListing]_vars

\* Identities, role assignments, maid profiles and jobs.
NextJobs ==
  \/ CreateIdentity(PlainForm)
  \/ \E id \in Identities : DeleteIdentity(id)
  \/ RoleSteps
  \/ MaidSteps({ListedRates}, OwnerPatches)
  \/ JobSteps

SpecJobs == Init /\ [][NextJobs]_vars

\* The requests of handleSignUp after the identity exists: the role chosen on
\* the form and, for a maid, the maid profile.
SignUpSteps ==
  \/ \E user \in Identities, role \in AppRoles : InsertRole(user, user, role)
  \/ \E user \in Identities : InsertMaid(user, user, ListedRates)

\* The status handlers of the two dashboards.
StatusSteps ==
  \/ \E user \in Identities, j \in jobs : cancelJob(user, j.id)
  \/ \E user \in Identities, j \in jobs : acceptJob(user, j.id)
  \/ \E user \in Identities, j \in jobs : rejectJob(user, j.id)
  \/ \E user \in Identities, j \in jobs : completeJob(user, j.id)

\* Sign-ups, bookings and the life of a job under the status handlers.
NextLifecycle ==
  \/ CreateIdentity(PlainForm)
  \/ \E user \in Identities : InsertRole(user, user, "customer")
  \/ \E user \in Identities : InsertMaid(user, user, ListedRates)
  \/ \E uid \in Callers, in \in BookingInputs : InsertJob(uid, in)
  \/ StatusSteps
  \/ \E user \in Identities : fetchMaidProfile(user)

SpecLifecycle == Init /\ [][NextLifecycle]_vars

\* Sign-ups, maids changing their prices, and customers booking the maid they
\* picked from the fetched list.
NextBooking ==
  \/ CreateIdentity(PlainForm)
  \/ SignUpSteps
  \/ \E uid \in Identities, m \in maids, patch \in RepricePatches :
       UpdateMaid(uid, m.id, patch)
  \/ \E user \in Identities : \E maid \in FetchMaids(user) : setSelectedMaid(user, maid)
  \/ \E user \in Identities, jobType \in JobTypes : handleBookMaid(user, jobType)

SpecBooking == Init /\ [][NextBooking]_vars

\* Rows of the three stamped tables, of the first MaxStamped identities,
\* updated as time passes by requests that leave updated_at alone and by
\* requests that supply it.
NextClock ==
  \/ Tick
  \/ nextUser <= MaxStamped /\ CreateIdentity(PlainForm)
  \/ \E user \in Identities : InsertRole(user, user, "customer")
  \/ \E user \in Identities : InsertMaid(user, user, ListedRates)
  \/ \E uid \in Callers, in \in BookingInputs : InsertJob(uid, in)
  \/ \E uid \in Identities, p \in profiles :
       \E patch \in {[col |-> "full_name", val |-> "Zed"]} \cup StampPatches :
         UpdateProfile(uid, p.id, patch)
  \/ \E uid \in Identities, m \in maids, patch \in RepricePatches \cup StampPatches :
       UpdateMaid(uid, m.id, patch)
  \/ \E uid \in Identities, j \in jobs, patch \in {CancelPatch} \cup StampPatches :
       UpdateJob(uid, j.id, patch)

SpecClock == Init /\ [][NextClock]_vars

\* Requests with values inside and outside the declared sets: role inserts
\* and updates, job inserts over every input, job status updates.
NextConstraints ==
  \/ CreateIdentity(PlainForm)
  \/ \E uid \in Callers, user_id \in UserIds, role \in AppRoles :
       InsertRole(uid, user_id, role)
  \/ \E uid \in Callers, r \in user_roles :
       \E newRole \in AppRoles \ {r.role} : UpdateRole(uid, r.user_id, r.role, newRole)
  \/ \E user \in Identities : InsertMaid(user, user, ListedRates)
  \/ \E uid \in Callers, in \in JobInputs : InsertJob(uid, in)
  \/ \E uid \in Callers, j \in jobs, patch \in JobPatches :
       patch.col = "status" /\ UpdateJob(uid, j.id, patch)

SpecConstraints == Init /\ [][NextConstraints]_vars

\* Sign-ups, bookings and delete requests: the states in which requests are
\* decided, and the ways a row can go.
NextDecision ==
  \/ CreateIdentity(PlainForm)
  \/ \E id \in Identities : DeleteIdentity(id)
  \/ SignUpSteps
  \/ \E uid \in Callers, in \in BookingInputs : InsertJob(uid, in)
  \/ \E uid \in Callers, id \in UserIds : DeleteProfile(uid, id)
  \/ \E uid \in Callers, m \in maids : DeleteMaid(uid, m.id)
  \/ \E uid \in Callers, j \in jobs : DeleteJob(uid, j.id)

SpecDecision == Init /\ [][NextDecision]_vars

\* ---------------------------------------------------------------- sign-up
\* What is typed into a rate field: a decimal literal or a hexadecimal one,
\* with the number it denotes, in thousandths.
RateTexts ==
  { [lit |-> "decimal", mills |-> 100000],
    [lit |-> "decimal", mills |-> 9999990],
    [lit |-> "decimal", mills |-> 10000000],
    [lit |-> "decimal", mills |-> 10000001],
    [lit |-> "decimal", mills |-> 4],
    [lit |-> "decimal", mills |-> 0],
    [lit |-> "hexadecimal", mills |-> 16000] }

DailyRateTexts ==
  {[lit |-> "decimal", mills |-> 500000], [lit |-> "decimal", mills |-> 50000000]}

MonthlyRateTexts ==
  {[lit |-> "decimal", mills |-> 5000000], [lit |-> "decimal", mills |-> 500000000]}

\* The sign-up forms: email, password, name and phone pass signUpBaseSchema.
SignUpData ==
  [email : {"b@x.in"}, full_name : {"Ann"}, role : AppRoles,
   hourlyRate : RateTexts, dailyRate : DailyRateTexts, monthlyRate : MonthlyRateTexts]

\* z.coerce.number(): Number(text), which reads both kinds of literal.
Number(text) == text.mills

\* parseFloat(text): the longest decimal prefix; of "0x..." that is "0".
parseFloat(text) == IF text.lit = "decimal" THEN text.mills ELSE 0

\* maidSignUpSchema on the three rates: .positive().max(limit).
maidSignUpSchema(data) ==
  /\ Number(data.hourlyRate) > 0 /\ Number(data.hourlyRate) <= hourlyRateMax * 1000
  /\ Number(data.dailyRate) > 0 /\ Number(data.dailyRate) <= dailyRateMax * 1000
  /\ Number(data.monthlyRate) > 0 /\ Number(data.monthlyRate) <= monthlyRateMax * 1000

\* schema.safeParse(signUpData), schema chosen by the role.
SignUpValid(data) == data.role = "maid" => maidSignUpSchema(data)

\* The maid row handleSignUp inserts, as the new identity.
SignUpMaid(data) ==
  NewMaid(nextUser, nextUser,
          [h |-> parseFloat(data.hourlyRate), d |-> parseFloat(data.dailyRate),
           m |-> parseFloat(data.monthlyRate)])

SignUpRole(data) == [user_id |-> nextUser, role |-> data.role, by |-> nextUser]

\* The errors of the two inserts, issued as the identity that signUp created
\* (whose auth.users and profiles rows exist by then).
SignUpRoleError(data) ==
  \/ ~Permitted("user_roles", "INSERT", nextUser, SignUpRole(data))
  \/ \E r \in user_roles : r.user_id = nextUser /\ r.role = data.role

SignUpMaidError(data) ==
  \/ ~Permitted("maids", "INSERT", nextUser, SignUpMaid(data))
  \/ ~MaidChecks(SignUpMaid(data))
  \/ \E m \in maids : m.user_id = nextUser

\* The toast handleSignUp ends with.
handleSignUpToast(data) ==
  IF ~SignUpValid(data) THEN "Validation Error"
  ELSE IF SignUpRoleError(data) THEN "Registration failed"
  ELSE IF data.role = "maid" /\ SignUpMaidError(data) THEN "Registration failed"
  ELSE "Account created!"

\* handleSignUp: validation, auth.signUp (with the trigger that creates the
\* profile), the role insert and, for a maid, the maid insert; each request
\* is sent only if the one before returned no error.
handleSignUp(data) ==
  /\ nextUser <= MaxUsers
  /\ data.role = "maid" => nextMaid <= MaxUsers + MaxMaids
  /\ SignUpValid(data)
  /\ LET new == [id |-> nextUser, email |-> data.email, full_name |-> data.full_name]
     IN /\ users' = users \cup {new}
        /\ profiles' = profiles \cup {handle_new_user(new)}
        /\ nextUser' = nextUser + 1
  /\ user_roles' = IF SignUpRoleError(data) THEN user_roles
                   ELSE user_roles \cup {SignUpRole(data)}
  /\ IF data.role = "maid" /\ ~SignUpRoleError(data) /\ ~SignUpMaidError(data)
     THEN maids' = maids \cup {SignUpMaid(data)} /\ nextMaid' = nextMaid + 1
     ELSE UNCHANGED <<maids, nextMaid>>
  /\ UNCHANGED <<jobs, nextJob, now, clientVars>>

\* Sign-ups through the form, and identities that are deleted.
NextSignUp ==
  \/ \E data \in SignUpData : handleSignUp(data)
  \/ \E id \in Identities : DeleteIdentity(id)

SpecSignUp == Init /\ [][NextSignUp]_vars

\* The buttons of the customer dashboard: Cancel, on a job that its fetched
\* list shows as pending.
CustomerSession(user) ==
  \E job \in customerJobs[user] : job.status = "pending" /\ cancelJob(user, job.id)

\* The buttons of the maid dashboard: Accept and Reject on the pendingJobs of
\* its fetched list, Mark Complete on the acceptedJobs.
MaidSession(user) ==
  \/ \E job \in maidJobs[user] : job.status = "pending" /\ acceptJob(user, job.id)
  \/ \E job \in maidJobs[user] : job.status = "pending" /\ rejectJob(user, job.id)
  \/ \E job \in maidJobs[user] : job.status = "accepted" /\ completeJob(user, job.id)

\* Identities with a customer role, a maid profile or both, open dashboards
\* and the buttons pressed on what each dashboard last fetched.
NextSessions ==
  \/ CreateIdentity(PlainForm)
  \/ \E user \in Identities : InsertRole(user, user, "customer")
  \/ \E user \in Identities : InsertMaid(user, user, ListedRates)
  \/ \E user \in Identities : \E maid \in FetchMaids(user) : setSelectedMaid(user, maid)
  \/ \E user \in Identities : handleBookMaid(user, "hourly")
  \/ \E user \in Identities, in \in BookingInputs : InsertJob(user, in)
  \/ \E user \in Identities : fetchCustomerJobs(user)
  \/ \E user \in Identities : openMaidDashboard(user)
  \/ \E user \in Identities : CustomerSession(user)
  \/ \E user \in Identities : MaidSession(user)

SpecSessions == Init /\ [][NextSessions]_vars

\* The bookings of the first identity.
FrameBookings == {in \in BookingInputs : in.customer_id = 1}

\* Two identities, their maid profiles, two bookings of the first one, open
\* dashboards and the buttons pressed on what each dashboard last fetched.
NextFrame ==
  \/ nextUser <= MaxFrameUsers /\ CreateIdentity(PlainForm)
  \/ \E user \in Identities : InsertRole(user, user, "customer")
  \/ \E user \in Identities : InsertMaid(user, user, ListedRates)
  \/ \E in \in FrameBookings : InsertJobUpTo(MaxFrameJobs, in.customer_id, in)
  \/ \E user \in Identities : fetchCustomerJobs(user)
  \/ \E user \in Identities : openMaidDashboard(user)
  \/ \E user \in Identities : CustomerSession(user)
  \/ \E user \in Identities : MaidSession(user)

SpecFrame == Init /\ [][NextFrame]_vars

\* ================================================================= claims

\* C1: with all migrations applied, a read of profiles or user_roles issued
\* by any caller A returns only rows whose id / user_id is A: never the
\* profile or a role assignment of another identity.
C1_ReadsOwnRowsOnly ==
  \A A \in Callers :
    /\ \A p \in SelectProfiles(A) : p.id = A
    /\ \A r \in SelectRoles(A) : r.user_id = A

\* Two identities with a profile and a role assignment each; A reads its own
\* rows and none of B's.
C1_Witness ==
  \E A \in Identities, B \in Identities :
    /\ A # B
    /\ \E p \in SelectProfiles(A) : p.id = A
    /\ \E r \in SelectRoles(A) : r.user_id = A
    /\ \E p \in profiles : p.id = B /\ p \notin SelectProfiles(A)
    /\ \E r \in user_roles : r.user_id = B /\ r \notin SelectRoles(A)

\* C7: a role-assignment insert succeeds only when the row's user_id is the
\* inserting identity, and every user_roles row was inserted by the identity
\* it names.
C7_RoleInsertedBySelf ==
  /\ \A r \in user_roles : r.by = r.user_id
  /\ \A uid \in Callers, user_id \in UserIds, role \in AppRoles :
       RoleInsertOutcome(uid, [user_id |-> user_id, role |-> role, by |-> uid]) = "ok"
         => uid = user_id

\* A holds a role it inserted itself, and B's insert of a role for A is
\* refused as a violation of row-level security.
C7_Witness ==
  \E A \in Identities, B \in Identities, role \in AppRoles :
    /\ A # B
    /\ \E r \in user_roles : r.user_id = A /\ r.by = A
    /\ ~has_role(A, role)
    /\ RoleInsertOutcome(B, [user_id |-> A, role |-> role, by |-> B]) = "rls"
    /\ RoleInsertOutcome(A, [user_id |-> A, role |-> role, by |-> A]) = "ok"

\* C8: a profile row of a surviving identity is changed only by an update
\* issued by its owner: whenever a step replaces the row, the row that takes
\* its place was written by the identity the old row belongs to.
C8_ProfileChangedByOwner ==
  [][ \A old \in profiles \ profiles' :
        old.id \in {u.id : u \in users'}
          => \E new \in profiles' \ profiles : new.id = old.id /\ new.by = old.id ]_vars

\* A's profile carries A's update, and B's update of it reaches no row.
C8_Witness ==
  \E A \in Identities, B \in Identities :
    /\ A # B
    /\ \E p \in profiles : p.id = A /\ p.by = A /\ p.full_name = "Zed"
    /\ ProfileTargets("UPDATE", B, A) = {}

\* C10: creating an identity creates, in the same step, exactly one profile
\* row with the identity's id and email and the metadata full_name ('' when
\* absent); every identity has exactly one profile and every profile has its
\* identity.
C10_OneProfilePerIdentity ==
  /\ [](/\ \A u \in users : Cardinality({p \in profiles : p.id = u.id}) = 1
        /\ \A p \in profiles : p.id \in Identities)
  /\ [][ \A u \in users' \ users :
           /\ Cardinality({p \in profiles' : p.id = u.id}) = 1
           /\ \E p \in profiles' \ profiles :
                /\ p.id = u.id
                /\ p.email = u.email
                /\ p.full_name = (IF u.full_name = NULL THEN "" ELSE u.full_name) ]_vars

\* One identity created without a full_name and one with it, each with its
\* profile, after another identity was deleted.
C10_Witness ==
  /\ \E u \in users : u.full_name = NULL
       /\ \E p \in profiles : p.id = u.id /\ p.full_name = "" /\ p.email = u.email
  /\ \E u \in users : u.full_name = "Ann"
       /\ \E p \in profiles : p.id = u.id /\ p.full_name = "Ann" /\ p.email = u.email
  /\ Cardinality(users) < nextUser - 1

\* C5 as stated: a maid-profile insert or update by X succeeds if and only
\* if the row's user_id is X (for an update: of the existing and of the
\* resulting row).
C5_AsStated ==
  /\ \A uid \in Callers, user_id \in UserIds, rates \in RateInputs :
       MaidInsertOutcome(uid, NewMaid(uid, user_id, rates)) = "ok" <=> user_id = uid
  /\ \A uid \in Callers, old \in maids, patch \in MaidPatches :
       (/\ old \in MaidTargets("UPDATE", uid, old.id)
        /\ MaidUpdateOutcome(uid, old, ApplyMaid(old, patch, uid)) = "ok")
         <=> (old.user_id = uid /\ ApplyMaid(old, patch, uid).user_id = uid)

\* The constraints of table maids on a row, beside the rows `others`.
C5_RowValid(others, row) ==
  /\ 0 < row.hourly_rate /\ row.hourly_rate < HourlyRateLimit * 100
  /\ 0 < row.daily_rate /\ row.daily_rate < DailyRateLimit * 100
  /\ 0 < row.monthly_rate /\ row.monthly_rate < MonthlyRateLimit * 100
  /\ ~\E m \in others : m.user_id = row.user_id
  /\ \E p \in profiles : p.id = row.user_id

\* C5, amended: a maid-profile insert or update by X succeeds if and only if
\* the row's user_id is X (update: of the existing and of the resulting row)
\* and the resulting row satisfies the constraints of the table; no step
\* creates or modifies a maid row whose user_id is another identity's.
C5_MaidWriteByOwner ==
  /\ [](/\ \A uid \in Callers, user_id \in UserIds, rates \in RateInputs :
             MaidInsertOutcome(uid, NewMaid(uid, user_id, rates)) = "ok"
               <=> (user_id = uid /\ C5_RowValid(maids, NewMaid(uid, user_id, rates)))
        /\ \A uid \in Callers, old \in maids, patch \in MaidPatches :
             (/\ old \in MaidTargets("UPDATE", uid, old.id)
              /\ MaidUpdateOutcome(uid, old, ApplyMaid(old, patch, uid)) = "ok")
               <=> (/\ old.user_id = uid
                    /\ ApplyMaid(old, patch, uid).user_id = uid
                    /\ C5_RowValid(maids \ {old}, ApplyMaid(old, patch, uid))))
  /\ [][ \A new \in maids' \ maids :
           /\ new.by = new.user_id
           /\ \A old \in maids : old.id = new.id => old.user_id = new.by ]_vars

\* A maid row inserted by its owner and then updated by its owner to other
\* rates, while another identity's update of it reaches no row.
C5_Witness ==
  \E m \in maids, B \in Identities :
    /\ m.by = m.user_id
    /\ B # m.user_id
    /\ m.hourly_rate = 999999
    /\ MaidTargets("UPDATE", B, m.id) = {}
    /\ MaidUpdateOutcome(m.user_id, m,
         ApplyMaid(m, [col |-> "rates", val |-> [h |-> 10, d |-> 10, m |-> 10]], m.user_id)) = "ok"
    /\ MaidInsertOutcome(B, NewMaid(B, m.user_id, [h |-> 10, d |-> 10, m |-> 10])) = "rls"

\* C6: every authenticated identity, whatever its roles, reads every maid row.
C6_AnyoneReadsMaids ==
  \A uid \in Identities : SelectMaids(uid) = maids

\* A maid row read by a customer and by an identity without any role, neither
\* of them its owner.
C6_Witness ==
  \E m \in maids, c \in Identities, n \in Identities :
    /\ c # m.user_id /\ n # m.user_id
    /\ has_role(c, "customer")
    /\ ~has_role(n, "customer") /\ ~has_role(n, "maid")
    /\ has_role(m.user_id, "maid")
    /\ m \in SelectMaids(c) /\ m \in SelectMaids(n)

\* Requested rates (thousandths) outside 0 < r < limit.
C9_OutOfRange(r) ==
  \/ ~(0 < r.h /\ r.h < HourlyRateLimit * 1000)
  \/ ~(0 < r.d /\ r.d < DailyRateLimit * 1000)
  \/ ~(0 < r.m /\ r.m < MonthlyRateLimit * 1000)

\* C9: a maid insert or update with a rate outside 0 < hourly < 10000,
\* 0 < daily < 50000, 0 < monthly < 500000 is rejected (hourly 10000 is,
\* 9999.99 is not), so every stored maid row has its three rates strictly
\* inside the bounds.
C9_RatesWithinBounds ==
  /\ \A m \in maids :
       /\ 0 < m.hourly_rate /\ m.hourly_rate < HourlyRateLimit * 100
       /\ 0 < m.daily_rate /\ m.daily_rate < DailyRateLimit * 100
       /\ 0 < m.monthly_rate /\ m.monthly_rate < MonthlyRateLimit * 100
  /\ \A uid \in Callers, user_id \in UserIds, rates \in RateInputs :
       C9_OutOfRange(rates) => MaidInsertOutcome(uid, NewMaid(uid, user_id, rates)) # "ok"
  /\ \A uid \in Callers, old \in maids, rates \in RateInputs :
       C9_OutOfRange(rates) =>
         \/ old \notin MaidTargets("UPDATE", uid, old.id)
         \/ MaidUpdateOutcome(uid, old,
              ApplyMaid(old, [col |-> "rates", val |-> rates], uid)) # "ok"
  /\ \A uid \in Identities :
       (~\E m \in maids : m.user_id = uid) =>
         /\ MaidInsertOutcome(uid, NewMaid(uid, uid, [h |-> 10000000, d |-> 10, m |-> 10]))
              = "check"
         /\ MaidInsertOutcome(uid,
              NewMaid(uid, uid, [h |-> 9999990, d |-> 49999990, m |-> 499999990])) = "ok"

\* A stored maid row with hourly rate 9999.99, daily rate 49999.99 and
\* monthly rate 499999.99, while an insert with hourly rate 10000 is refused.
C9_Witness ==
  /\ \E m \in maids :
       m.hourly_rate = 999999 /\ m.daily_rate = 4999999 /\ m.monthly_rate = 49999999
  /\ \E uid \in Identities :
       MaidInsertOutcome(uid, NewMaid(uid, uid, [h |-> 10000000, d |-> 10, m |-> 10]))
         = "check"

\* C2 as stated: a job insert by X succeeds if and only if the row's
\* customer_id is X and X holds the customer role.
C2_AsStated ==
  \A uid \in Callers, in \in JobInputs :
    JobInsertOutcome(uid, NewJob(uid, in)) = "ok"
      <=> (in.customer_id = uid /\ has_role(uid, "customer"))

\* C2, amended: a job insert by X succeeds if and only if the row's
\* customer_id is X, X holds the customer role at the time of the insert and
\* the row satisfies the constraints of table jobs (job_type and status in
\* their sets, maid_id an existing maid row); every job row that a step adds
\* names its inserter as customer, and the inserter held the customer role.
C2_JobInsertByCustomer ==
  /\ [](\A uid \in Callers, in \in JobInputs :
          JobInsertOutcome(uid, NewJob(uid, in)) = "ok"
            <=> (/\ in.customer_id = uid
                 /\ \E r \in user_roles : r.user_id = uid /\ r.role = "customer"
                 /\ in.job_type \in {"hourly", "daily", "monthly"}
                 /\ in.status \in {"pending", "accepted", "completed", "cancelled"}
                 /\ \E m \in maids : m.id = in.maid_id))
  /\ [][ \A j \in jobs' :
           j.id \notin {k.id : k \in jobs} =>
             /\ j.by = j.customer_id
             /\ \E r \in user_roles : r.user_id = j.by /\ r.role = "customer" ]_vars

\* A job inserted by its customer, while the same insert by an identity that
\* holds the maid role only, and an insert in the customer's name by another
\* customer, are refused.
C2_Witness ==
  \E j \in jobs, X \in Identities, Y \in Identities :
    /\ j.by = j.customer_id /\ j.status = "pending"
    /\ has_role(X, "maid") /\ ~has_role(X, "customer")
    /\ \A in \in JobInputs :
         in.customer_id = X => JobInsertOutcome(X, NewJob(X, in)) = "rls"
    /\ Y # j.customer_id /\ has_role(Y, "customer")
    /\ \A in \in JobInputs :
         in.customer_id = j.customer_id => JobInsertOutcome(Y, NewJob(Y, in)) = "rls"

\* C3: a job row J is readable by caller X if and only if X is J's customer
\* or X owns the maid row that J.maid_id references.
C3_JobReadable ==
  \A X \in Callers, J \in jobs :
    J \in SelectJobs(X)
      <=> (X = J.customer_id \/ \E M \in maids : M.id = J.maid_id /\ M.user_id = X)

\* A job read by its customer and by the owner of its maid row, both distinct
\* from a third identity, itself owner of a maid row, that cannot read it.
C3_Witness ==
  \E J \in jobs, T \in Identities, M \in maids :
    /\ M.id = J.maid_id
    /\ M.user_id # J.customer_id
    /\ T # J.customer_id /\ T # M.user_id
    /\ \E N \in maids : N.user_id = T
    /\ J \in SelectJobs(J.customer_id) /\ J \in SelectJobs(M.user_id)
    /\ J \notin SelectJobs(T)

\* C4: an update of a job row takes effect only if its caller is the job's
\* customer or owns the maid row the job references: whenever a step changes
\* a job row, the writer of the new row is one of the two.
C4_JobUpdateByParty ==
  [][ \A old \in jobs, new \in jobs' :
        (old.id = new.id /\ old # new) =>
          \/ new.by = old.customer_id
          \/ \E m \in maids : m.id = old.maid_id /\ m.user_id = new.by ]_vars

\* A job that the owner of its maid row has accepted, while the update of a
\* third identity reaches no row.
C4_Witness ==
  \E j \in jobs, T \in Identities :
    /\ j.status = "accepted"
    /\ j.by # j.customer_id /\ AssignedMaid(j.by, j)
    /\ T # j.customer_id /\ ~AssignedMaid(T, j)
    /\ JobTargets("UPDATE", T, j.id) = {}
    /\ JobTargets("UPDATE", j.customer_id, j.id) = {j}

\* C11: once the stored status of a job is completed or cancelled it never
\* changes again, whatever updates the owning customer and the assigned maid
\* issue: no step replaces a job row of terminal status by a row of the same
\* id with another status.
C11_TerminalStatusFinal ==
  [][ \A old \in jobs, new \in jobs' :
        (old.id = new.id /\ old.status \in {"completed", "cancelled"})
          => new.status = old.status ]_vars

\* C12: every job enters the store with status pending, and completed is
\* reached only from accepted: a step that adds a job row adds it as pending,
\* and a step that makes a job completed finds it accepted.
C12_PendingFirst ==
  [][ /\ \A new \in jobs' :
           new.id \notin {j.id : j \in jobs} => new.status = "pending"
      /\ \A old \in jobs, new \in jobs' :
           (old.id = new.id /\ new.status = "completed" /\ old.status # "completed")
             => old.status = "accepted" ]_vars

\* C13: an operation that an access-control rule denies returns an
\* authorization error to its caller and is never reported as a success:
\* for a job whose update policies deny the caller, every status handler ends
\* with its error toast.
C13_DeniedIsError ==
  \A user \in Identities, j \in jobs :
    ~Permitted("jobs", "UPDATE", user, j) =>
      /\ cancelJobToast(user, j.id) = "Error"
      /\ rejectJobToast(user, j.id) = "Error"
      /\ acceptJobToast(user, j.id) = "Error"
      /\ completeJobToast(user, j.id) = "Error"

\* C15: when the owning customer cancels and the assigned maid accepts the
\* same pending job, neither update is rejected, in either order, and the
\* stored status is the one of the update applied last; every status update
\* that reaches the row is applied, whatever status the row has.
C15_LastWriterWins ==
  /\ [](\A j \in jobs, m \in maids :
          (j.status = "pending" /\ m.id = j.maid_id) =>
            LET C == j.customer_id
                M == m.user_id
                cancelled == ApplyJob(j, CancelPatch, C)
                accepted == ApplyJob(j, AcceptPatch, M)
            IN /\ JobTargets("UPDATE", C, j.id) = {j}
               /\ JobUpdateOutcome(C, j, cancelled) = "ok"
               /\ Permitted("jobs", "UPDATE", M, cancelled)
               /\ Permitted("jobs", "SELECT", M, cancelled)
               /\ JobUpdateOutcome(M, cancelled, ApplyJob(cancelled, AcceptPatch, M)) = "ok"
               /\ ApplyJob(cancelled, AcceptPatch, M).status = "accepted"
               /\ JobTargets("UPDATE", M, j.id) = {j}
               /\ JobUpdateOutcome(M, j, accepted) = "ok"
               /\ Permitted("jobs", "UPDATE", C, accepted)
               /\ Permitted("jobs", "SELECT", C, accepted)
               /\ JobUpdateOutcome(C, accepted, ApplyJob(accepted, CancelPatch, C)) = "ok"
               /\ ApplyJob(accepted, CancelPatch, C).status = "cancelled")
  /\ [][ \A user \in Identities, j \in jobs :
           (user = j.customer_id \/ AssignedMaid(user, j)) =>
             /\ cancelJob(user, j.id) =>
                  \E new \in jobs' : new.id = j.id /\ new.status = "cancelled" /\ new.by = user
             /\ acceptJob(user, j.id) =>
                  \E new \in jobs' : new.id = j.id /\ new.status = "accepted" /\ new.by = user ]_vars

\* A job that its customer has cancelled, while the accept of the owner of
\* its maid row, another identity, still reaches the row and is not refused.
C15_Witness ==
  \E j \in jobs, m \in maids :
    /\ m.id = j.maid_id /\ m.user_id # j.customer_id
    /\ j.status = "cancelled" /\ j.by = j.customer_id
    /\ JobTargets("UPDATE", m.user_id, j.id) = {j}
    /\ ~JobUpdateError(m.user_id, j.id, AcceptPatch)
    /\ acceptJobToast(m.user_id, j.id) = "Job accepted!"

\* C14: an identity holds at most one role: after any sequence of signups
\* and role-assignment inserts no identity has both a customer and a maid
\* role assignment.
C14_AtMostOneRole ==
  \A u \in Identities : ~(has_role(u, "customer") /\ has_role(u, "maid"))

\* The stored rate of a maid row for a job type.
C16_Rate(m, jobType) ==
  CASE jobType = "hourly" -> m.hourly_rate
    [] jobType = "daily" -> m.daily_rate
    [] jobType = "monthly" -> m.monthly_rate

\* C16: for every job created through handleBookMaid the stored amount is
\* the booked maid's stored rate for the job's job_type at the moment the
\* job row is inserted.
C16_AmountIsStoredRate ==
  [][ \A new \in jobs' :
        new.id \notin {j.id : j \in jobs} =>
          \E m \in maids : m.id = new.maid_id /\ new.amount = C16_Rate(m, new.job_type) ]_vars

\* Every row of a table that a step has changed carries the present time as
\* updated_at and the created_at it had.
C17_Stamped(before, after) ==
  \A old \in before, new \in after :
    (old.id = new.id /\ old # new) =>
      new.updated_at = now /\ new.created_at = old.created_at

\* C17: every update applied to a profile, maid or job row sets the row's
\* updated_at to the time of the update, also when the request supplied
\* another updated_at, and leaves created_at as it was.
C17_UpdatedAtStamped ==
  /\ [](\A uid \in Callers, patch \in StampPatches :
          /\ \A p \in profiles :
               /\ ApplyProfile(p, patch, uid).updated_at = now
               /\ ApplyProfile(p, patch, uid).created_at = p.created_at
          /\ \A m \in maids :
               /\ ApplyMaid(m, patch, uid).updated_at = now
               /\ ApplyMaid(m, patch, uid).created_at = m.created_at
          /\ \A j \in jobs :
               /\ ApplyJob(j, patch, uid).updated_at = now
               /\ ApplyJob(j, patch, uid).created_at = j.created_at)
  /\ [][ /\ C17_Stamped(profiles, profiles')
         /\ C17_Stamped(maids, maids')
         /\ C17_Stamped(jobs, jobs') ]_vars

\* A profile, a maid row and a job, each created at an earlier time and
\* updated by its owner at the present time, with a request supplying
\* another updated_at still applicable to each.
C17_Witness ==
  \E p \in profiles, m \in maids, j \in jobs :
    /\ p.by = p.id /\ p.created_at < p.updated_at /\ p.updated_at = now
    /\ m.by = m.user_id /\ m.created_at < m.updated_at /\ m.updated_at = now
    /\ j.by = j.customer_id /\ j.created_at < j.updated_at /\ j.updated_at = now
    /\ \A patch \in StampPatches :
         /\ patch.val # now
         /\ ProfileUpdateOutcome(p.id, p, ApplyProfile(p, patch, p.id)) = "ok"
         /\ MaidUpdateOutcome(m.user_id, m, ApplyMaid(m, patch, m.user_id)) = "ok"
         /\ JobUpdateOutcome(j.customer_id, j, ApplyJob(j, patch, j.customer_id)) = "ok"

\* A job request value outside the declared sets.
C18_BadJob(status, job_type) ==
  \/ status \notin {"pending", "accepted", "completed", "cancelled"}
  \/ job_type \notin {"hourly", "daily", "monthly"}

\* C18: a write that would store a job status or job_type outside the
\* declared sets, or a second role assignment with an existing
\* (user_id, role) pair, is rejected in full and changes nothing; in every
\* reachable state all statuses and job types are in those sets and no
\* (user_id, role) pair occurs twice.
C18_ConstraintsHold ==
  /\ [](/\ \A j \in jobs : ~C18_BadJob(j.status, j.job_type)
        /\ \A r1 \in user_roles, r2 \in user_roles :
             (r1.user_id = r2.user_id /\ r1.role = r2.role) => r1 = r2
        /\ \A uid \in Callers, in \in JobInputs :
             C18_BadJob(in.status, in.job_type) =>
               JobInsertOutcome(uid, NewJob(uid, in)) \in {"rls", "check"}
        /\ \A uid \in Callers, j \in jobs, patch \in JobPatches :
             (/\ patch.col = "status"
              /\ C18_BadJob(patch.val, j.job_type)
              /\ j \in JobTargets("UPDATE", uid, j.id)) =>
               JobUpdateOutcome(uid, j, ApplyJob(j, patch, uid)) = "check"
        /\ \A uid \in Callers, r \in user_roles :
             RoleInsertOutcome(uid, [user_id |-> r.user_id, role |-> r.role, by |-> uid])
               \in {"rls", "unique"})
  /\ [][ /\ \A uid \in Callers, in \in JobInputs :
             (C18_BadJob(in.status, in.job_type) /\ InsertJob(uid, in)) => UNCHANGED vars
         /\ \A uid \in Callers, j \in jobs, patch \in JobPatches :
             (/\ patch.col = "status"
              /\ C18_BadJob(patch.val, j.job_type)
              /\ UpdateJob(uid, j.id, patch)) => UNCHANGED vars
         /\ \A uid \in Callers, r \in user_roles :
             InsertRole(uid, r.user_id, r.role) => UNCHANGED vars ]_vars

\* A customer with a job: its insert of a job with an unknown status or an
\* unknown job type, its update of the job to an unknown status and its
\* second insert of its role are each refused by a constraint.
C18_Witness ==
  \E j \in jobs :
    LET C == j.customer_id
        in == [customer_id |-> C, maid_id |-> j.maid_id, job_type |-> "hourly",
               amount |-> 10, status |-> "pending"]
    IN /\ has_role(C, "customer")
       /\ JobInsertOutcome(C, NewJob(C, [in EXCEPT !.status = "bogus"])) = "check"
       /\ JobInsertOutcome(C, NewJob(C, [in EXCEPT !.job_type = "weekly"])) = "check"
       /\ JobInsertOutcome(C, NewJob(C, in)) = "ok"
       /\ JobTargets("UPDATE", C, j.id) = {j}
       /\ JobUpdateOutcome(C, j, ApplyJob(j, [col |-> "status", val |-> "bogus"], C)) = "check"
       /\ RoleInsertOutcome(C, [user_id |-> C, role |-> "customer", by |-> C]) = "unique"

\* The decision on a request as a function of its caller, its command, its
\* target row, the role assignments `roles` and the maid rows `maidRows`.
C19_Decision(roles, maidRows, tbl, cmd, uid, row) ==
  /\ uid # 0
  /\ CASE tbl = "profiles" -> cmd \in {"SELECT", "UPDATE"} /\ uid = row.id
       [] tbl = "user_roles" -> cmd \in {"SELECT", "INSERT"} /\ uid = row.user_id
       [] tbl = "maids" ->
            cmd = "SELECT" \/ (cmd \in {"INSERT", "UPDATE"} /\ uid = row.user_id)
       [] tbl = "jobs" ->
            \/ /\ cmd = "INSERT"
               /\ uid = row.customer_id
               /\ \E r \in roles : r.user_id = uid /\ r.role = "customer"
            \/ /\ cmd \in {"SELECT", "UPDATE"}
               /\ \/ uid = row.customer_id
                  \/ \E m \in maidRows : m.id = row.maid_id /\ m.user_id = uid

C19_Commands == {"SELECT", "INSERT", "UPDATE", "DELETE"}

\* Role tables that give the caller the role assignments it has.
C19_RoleTables(uid) ==
  { {r \in user_roles : r.user_id = uid} \cup others :
      others \in SUBSET {[user_id |-> u, role |-> role, by |-> u] :
                           u \in Identities \ {uid}, role \in AppRoles} }

\* Maid tables with the maid rows of the store, each owned by some identity,
\* no identity owning two: the maid tables of the store states in which the
\* same maid profiles were created by the identities in another order.
C19_MaidTables ==
  { {[m EXCEPT !.user_id = owner[m.id]] : m \in maids} :
      owner \in {f \in [{m.id : m \in maids} -> Identities] :
                   \A a \in DOMAIN f, b \in DOMAIN f : f[a] = f[b] => a = b} }

\* The job rows a request can be about: the stored ones and the bookings.
C19_JobRows(uid) == jobs \cup {NewJob(uid, in) : in \in BookingInputs}

\* The decision on a request of `uid` about `row` is the same under each of
\* the role and maid tables `tables`.
C19_SameDecision(tables, tbl, cmd, uid, row) ==
  LET decision == Permitted(tbl, cmd, uid, row)
  IN  \A t \in tables : C19_Decision(t[1], t[2], tbl, cmd, uid, row) = decision

\* C19 as stated: the decision on a request is a function of the caller, the
\* operation, the target row and the caller's role assignments only: it is
\* the same under every role table that agrees on the caller's assignments
\* and every maid table.
C19_AsStated ==
  \A uid \in Callers :
    LET tables == C19_RoleTables(uid) \X C19_MaidTables
    IN  \A cmd \in C19_Commands, row \in C19_JobRows(uid) :
          C19_SameDecision(tables, "jobs", cmd, uid, row)

\* C19, amended: the decision on a request is a function of the caller, the
\* operation, the target row, the caller's role assignments and, for a job,
\* the owner of the maid row the job references: it is the same under every
\* role table and maid table that agree on these.
C19_DecisionDeterministic ==
  \A uid \in Callers :
    LET tables == C19_RoleTables(uid) \X C19_MaidTables
    IN  \A cmd \in C19_Commands :
          /\ \A row \in profiles :
               C19_SameDecision(tables, "profiles", cmd, uid, row)
          /\ \A row \in user_roles \cup
                        {[user_id |-> u, role |-> role, by |-> uid] :
                           u \in UserIds, role \in AppRoles} :
               C19_SameDecision(tables, "user_roles", cmd, uid, row)
          /\ \A row \in maids \cup {NewMaid(uid, u, ListedRates) : u \in UserIds} :
               C19_SameDecision(tables, "maids", cmd, uid, row)
          /\ \A row \in C19_JobRows(uid) :
               C19_SameDecision(
                 {t \in tables :
                    \A m \in maids, n \in t[2] :
                      (m.id = row.maid_id /\ n.id = m.id) => n.user_id = m.user_id},
                 "jobs", cmd, uid, row)

\* A job that the owner of its maid row may read and update and a third
\* identity may not, with the same role assignments; were the maid row the
\* third identity's, the decisions would be the opposite.
C19_Witness ==
  \E j \in jobs, m \in maids, T \in Identities :
    /\ m.id = j.maid_id
    /\ T # j.customer_id /\ T # m.user_id /\ m.user_id # j.customer_id
    /\ {r.role : r \in {x \in user_roles : x.user_id = T}}
         = {r.role : r \in {x \in user_roles : x.user_id = m.user_id}}
    /\ Permitted("jobs", "SELECT", m.user_id, j) /\ Permitted("jobs", "UPDATE", m.user_id, j)
    /\ ~Permitted("jobs", "SELECT", T, j) /\ ~Permitted("jobs", "UPDATE", T, j)
    /\ \E maidRows \in C19_MaidTables :
         /\ C19_Decision(user_roles, maidRows, "jobs", "SELECT", T, j)
         /\ ~C19_Decision(user_roles, maidRows, "jobs", "SELECT", m.user_id, j)

\* C20: no request of an authenticated identity deletes a job or a profile
\* row: a DELETE request has no target among the jobs and the profiles, a job
\* row goes only in a step in which its customer identity or its maid row
\* goes, and a profile row only in a step in which its identity goes.
C20_NoRequestDeletes ==
  /\ [](\A uid \in Identities :
          /\ Targets("jobs", "DELETE", uid, jobs) = {}
          /\ Targets("profiles", "DELETE", uid, profiles) = {})
  /\ [][ /\ \A j \in jobs :
             (\A k \in jobs' : k.id # j.id)
               => \/ \A u \in users' : u.id # j.customer_id
                  \/ \A m \in maids' : m.id # j.maid_id
          /\ \A p \in profiles :
               (\A q \in profiles' : q.id # p.id) => \A u \in users' : u.id # p.id
        ]_vars

\* A customer and the owner of the maid row of a job, both with their
\* profiles and able to read the job; the delete requests of both leave it.
C20_Witness ==
  \E j \in jobs, m \in maids :
    /\ m.id = j.maid_id /\ m.user_id # j.customer_id
    /\ \A uid \in {j.customer_id, m.user_id} :
         /\ Permitted("jobs", "SELECT", uid, j)
         /\ \E p \in profiles : p.id = uid /\ Permitted("profiles", "SELECT", uid, p)
         /\ ENABLED DeleteJob(uid, j.id)
         /\ ENABLED DeleteProfile(uid, uid)
         /\ JobTargets("DELETE", uid, j.id) = {}
         /\ ProfileTargets("DELETE", uid, uid) = {}

\* C21: a role assignment is immutable once created: no UPDATE or DELETE
\* request of any caller has a target among the role assignments, and in every
\* step every role assignment of an identity that still exists stays as it is.
C21_RoleImmutable ==
  /\ [](\A uid \in Callers :
          /\ Targets("user_roles", "UPDATE", uid, user_roles) = {}
          /\ Targets("user_roles", "DELETE", uid, user_roles) = {})
  /\ [][ \A r \in user_roles :
            (\E u \in users' : u.id = r.user_id) => r \in user_roles' ]_vars

\* An identity that signed up with a role and can read it; its own requests
\* to change the role to the other one and to delete it find no row.
C21_Witness ==
  \E r \in user_roles :
    /\ r.by = r.user_id /\ r.user_id \in Identities
    /\ r \in SelectRoles(r.user_id)
    /\ \A other \in AppRoles \ {r.role} : ENABLED UpdateRole(r.user_id, r.user_id, r.role, other)
    /\ ENABLED DeleteRole(r.user_id, r.user_id, r.role)
    /\ RoleTargets("UPDATE", r.user_id, r.user_id, r.role) = {}
    /\ RoleTargets("DELETE", r.user_id, r.user_id, r.role) = {}

\* C22: a job's status goes from pending to accepted and from accepted to
\* completed only by an update of the identity that owns the job's maid row
\* (so never by an update of a customer who does not own that maid row).
C22_MaidDrivesForward ==
  [][ \A j \in jobs, k \in jobs' :
        ( /\ k.id = j.id
          /\ \/ j.status = "pending" /\ k.status = "accepted"
             \/ j.status = "accepted" /\ k.status = "completed" )
          => AssignedMaid(k.by, j) ]_vars

\* C23: under every interleaving of the dashboards, each pressing the buttons
\* of its last fetched job list, the write of cancelJob, rejectJob or acceptJob
\* reaches only a job stored as pending, and the write of completeJob only a
\* job stored as accepted.
C23_WritesOnFreshStatus ==
  [][ \A user \in Identities :
        /\ \A job \in customerJobs[user] :
             (job.status = "pending" /\ cancelJob(user, job.id))
               => \A j \in JobTargets("UPDATE", user, job.id) : j.status = "pending"
        /\ \A job \in maidJobs[user] :
             /\ (job.status = "pending" /\ acceptJob(user, job.id))
                  => \A j \in JobTargets("UPDATE", user, job.id) : j.status = "pending"
             /\ (job.status = "pending" /\ rejectJob(user, job.id))
                  => \A j \in JobTargets("UPDATE", user, job.id) : j.status = "pending"
             /\ (job.status = "accepted" /\ completeJob(user, job.id))
                  => \A j \in JobTargets("UPDATE", user, job.id) : j.status = "accepted"
    ]_vars

C25_FetchMaidsListsAll ==
  \A user \in Identities : has_role(user, "customer") => FetchMaids(user) = maids

\* C26: in every reachable state the completed_jobs of a maid row is the
\* number of jobs of that maid that are stored as completed.
C26_CounterCountsCompleted ==
  \A m \in maids :
    m.completed_jobs = Cardinality({j \in jobs : j.maid_id = m.id /\ j.status = "completed"})

\* C27: handleSignUp is all-or-nothing: when it ends with Registration failed
\* the store holds no identity, profile, role assignment or maid row of that
\* sign-up; when it ends with Account created the store holds the identity,
\* its profile, its role assignment and, for a maid, its maid row.
C27_SignUpAllOrNothing ==
  [][ \A data \in SignUpData :
        handleSignUp(data) =>
          /\ handleSignUpToast(data) = "Registration failed" =>
               /\ \A u \in users' : u.id # nextUser
               /\ \A q \in profiles' : q.id # nextUser
               /\ \A r \in user_roles' : r.user_id # nextUser
               /\ \A m \in maids' : m.user_id # nextUser
          /\ handleSignUpToast(data) = "Account created!" =>
               /\ \E u \in users' : u.id = nextUser
               /\ \E q \in profiles' : q.id = nextUser
               /\ \E r \in user_roles' : r.user_id = nextUser /\ r.role = data.role
               /\ data.role = "maid" => \E m \in maids' : m.user_id = nextUser
    ]_vars

\* C28: every triple of rates that maidSignUpSchema accepts is accepted by
\* the check constraints of maids when handleSignUp inserts it, the boundary
\* values 10000, 50000 and 500000 included.
C28_SchemaWithinChecks ==
  \A data \in SignUpData :
    (data.role = "maid" /\ maidSignUpSchema(data)) => MaidChecks(SignUpMaid(data))

\* C29: the customer_id, the maid_id and the amount of a job never change
\* after the job is created.
C29_JobPartiesFixed ==
  [][ \A j \in jobs, k \in jobs' :
        k.id = j.id =>
          /\ k.customer_id = j.customer_id
          /\ k.maid_id = j.maid_id
          /\ k.amount = j.amount ]_vars

\* Row `new` is row `old` but for the columns `cols` (and the ghost field).
C30_SameBut(old, new, cols) ==
  \A col \in DOMAIN old : col \in cols \cup {"by"} \/ new[col] = old[col]

\* The step changes, of the jobs, at most the status and updated_at of the
\* job with key `id`, and no user, profile or role assignment.
C30_JobFrame(id) ==
  /\ users' = users /\ profiles' = profiles /\ user_roles' = user_roles
  /\ {k.id : k \in jobs'} = {j.id : j \in jobs}
  /\ \A j \in jobs, k \in jobs' :
       k.id = j.id =>
         IF j.id = id THEN C30_SameBut(j, k, {"status", "updated_at"}) ELSE k = j

\* The step changes, of the maid rows, at most the completed_jobs and
\* updated_at of a row that `user` owns.
C30_MaidFrame(user) ==
  /\ {n.id : n \in maids'} = {m.id : m \in maids}
  /\ \A m \in maids, n \in maids' :
       n.id = m.id =>
         IF m.user_id = user THEN C30_SameBut(m, n, {"completed_jobs", "updated_at"})
         ELSE n = m

\* C30: cancelJob, acceptJob, rejectJob and completeJob, called with job id j,
\* change at most the status and updated_at of the job with id j and leave
\* every other job and all profiles and role assignments as they are; only
\* completeJob also changes a maid row, the caller's own, and only its
\* completed_jobs and updated_at.
C30_StatusFrame ==
  [][ \A user \in Identities, j \in jobs :
        /\ cancelJob(user, j.id) => C30_JobFrame(j.id) /\ maids' = maids
        /\ acceptJob(user, j.id) => C30_JobFrame(j.id) /\ maids' = maids
        /\ rejectJob(user, j.id) => C30_JobFrame(j.id) /\ maids' = maids
        /\ completeJob(user, j.id) => C30_JobFrame(j.id) /\ C30_MaidFrame(user)
    ]_vars

\* Two jobs of two maid rows with different owners; the owner of one has
\* completed its job and has its counter raised, the other job and the other
\* maid row are as they were inserted.
C30_Witness ==
  \E j \in jobs, k \in jobs, m \in maids, n \in maids :
    /\ j.id # k.id /\ m.id = j.maid_id /\ n.id = k.maid_id /\ m.user_id # n.user_id
    /\ j.status = "completed" /\ j.by = m.user_id /\ j.by # j.customer_id
    /\ m.completed_jobs = 1 /\ m.by = m.user_id
    /\ k.status = "pending" /\ k.by = k.customer_id
    /\ n.completed_jobs = 0
    /\ Permitted("jobs", "UPDATE", m.user_id, j)

====
